---- MODULE Spec2Model ----
(***************************************************************************)
(* State-machine model of clipboard_manager.py: the history store kept by  *)
(* ClipboardManager (history, max_items), its persisted JSON document and   *)
(* the clipboard polled by check_clipboard.                                 *)
(*                                                                          *)
(* Strings and byte strings are sequences of code points / byte values.     *)
(* A Python value held in ClipboardItem.content is [py |-> "str", v |-> s]  *)
(* or [py |-> "bytes", v |-> bs].  A JSON string is its sequence of code    *)
(* points.  A JSON object is a record whose DOMAIN is the set of its keys.  *)
(***************************************************************************)
EXTENDS Integers, Sequences, FiniteSets, TLC

VARIABLES phase, history, max_items, disk, clipboard, fs, last,
          clip_rows, timer, listener

vars == <<phase, history, max_items, disk, clipboard, fs, last,
          clip_rows, timer, listener>>

(***************************************************************************)
(* Bounds of the exploration.                                               *)
(***************************************************************************)
\* Largest capacity passed to the constructor or stored in an initial document.
MaxCap == 2
\* Longest history list of an initial persisted document.
MaxDocLen == 2

(***************************************************************************)
(* Program constants.                                                       *)
(***************************************************************************)
\* max_items=10 of __init__ and config.get('max_items', 10).
DefaultMaxItems == 10
\* os.path.getmtime(os.path.realpath(__file__)): one value for the whole run.
SourceMTime == 5

(***************************************************************************)
(* Python built-ins used by ClipboardItem.                                  *)
(***************************************************************************)
PyStrVal(s) == [py |-> "str", v |-> s]
PyBytesVal(bs) == [py |-> "bytes", v |-> bs]

HexDigit(n) == IF n < 10 THEN 48 + n ELSE 87 + n

\* One byte of repr(bytes), q being the quote character in use.
ReprByte(b, q) ==
    IF b = q \/ b = 92 THEN <<92, b>>
    ELSE IF b = 9 THEN <<92, 116>>
    ELSE IF b = 10 THEN <<92, 110>>
    ELSE IF b = 13 THEN <<92, 114>>
    ELSE IF b < 32 \/ b >= 127 THEN <<92, 120, HexDigit(b \div 16), HexDigit(b % 16)>>
    ELSE <<b>>

RECURSIVE ReprBody(_, _)
ReprBody(bs, q) ==
    IF bs = <<>> THEN <<>>
    ELSE ReprByte(Head(bs), q) \o ReprBody(Tail(bs), q)

\* repr of a bytes object: b'...' (b"..." when it holds ' and no ").
BytesRepr(bs) ==
    LET hasSingle == \E i \in 1..Len(bs) : bs[i] = 39
        hasDouble == \E i \in 1..Len(bs) : bs[i] = 34
        q == IF hasSingle /\ ~hasDouble THEN 34 ELSE 39
    IN  <<98, q>> \o ReprBody(bs, q) \o <<q>>

\* str(content): a str is itself, a bytes object is its repr.
PyStr(content) ==
    IF content.py = "str" THEN content.v ELSE BytesRepr(content.v)

\* str.encode(): UTF-8, for code points below 2048.
Utf8Char(c) ==
    IF c < 128 THEN <<c>> ELSE <<192 + (c \div 64), 128 + (c % 64)>>

RECURSIVE Utf8Encode(_)
Utf8Encode(s) ==
    IF s = <<>> THEN <<>> ELSE Utf8Char(Head(s)) \o Utf8Encode(Tail(s))

\* hashlib.md5(data).hexdigest(), as a collision-free digest: the digest of
\* data is the term [md5 |-> data], equal for equal data only.
Md5Hex(data) == [md5 |-> data]

\* ClipboardItem.__init__, line 18: the id of a content.
ItemId(content) == Md5Hex(Utf8Encode(PyStr(content)))

(***************************************************************************)
(* base64.b64encode / base64.b64decode (binascii, non-strict mode).         *)
(***************************************************************************)
B64Char(i) ==
    IF i < 26 THEN 65 + i
    ELSE IF i < 52 THEN 71 + i
    ELSE IF i < 62 THEN i - 4
    ELSE IF i = 62 THEN 43 ELSE 47

\* 0..63 for a character of the alphabet, -1 for any other character.
B64Index(c) ==
    IF c >= 65 /\ c <= 90 THEN c - 65
    ELSE IF c >= 97 /\ c <= 122 THEN c - 71
    ELSE IF c >= 48 /\ c <= 57 THEN c + 4
    ELSE IF c = 43 THEN 62
    ELSE IF c = 47 THEN 63
    ELSE -1

RECURSIVE B64Encode(_)
B64Encode(bs) ==
    IF bs = <<>> THEN <<>>
    ELSE IF Len(bs) = 1 THEN
        LET n == bs[1] * 65536
        IN  <<B64Char(n \div 262144), B64Char((n \div 4096) % 64), 61, 61>>
    ELSE IF Len(bs) = 2 THEN
        LET n == bs[1] * 65536 + bs[2] * 256
        IN  <<B64Char(n \div 262144), B64Char((n \div 4096) % 64),
              B64Char((n \div 64) % 64), 61>>
    ELSE
        LET n == bs[1] * 65536 + bs[2] * 256 + bs[3]
        IN  <<B64Char(n \div 262144), B64Char((n \div 4096) % 64),
              B64Char((n \div 64) % 64), B64Char(n % 64)>>
            \o B64Encode(SubSeq(bs, 4, Len(bs)))

\* binascii.a2b_base64 scanning s: quad is the position in the current group
\* of four, left the bits carried over, pads the '=' seen in a row, out the
\* bytes produced.  Characters outside the alphabet are skipped.
RECURSIVE B64Scan(_, _, _, _, _)
B64Scan(s, quad, left, pads, out) ==
    IF s = <<>> THEN
        IF quad = 0 THEN [raised |-> "none", bytes |-> out]
        ELSE [raised |-> "binascii.Error"]
    ELSE IF Head(s) = 61 THEN
        IF quad >= 2 /\ quad + pads + 1 >= 4 THEN [raised |-> "none", bytes |-> out]
        ELSE B64Scan(Tail(s), quad, left, pads + 1, out)
    ELSE IF B64Index(Head(s)) < 0 THEN B64Scan(Tail(s), quad, left, pads, out)
    ELSE
        LET d == B64Index(Head(s))
        IN  IF quad = 0 THEN B64Scan(Tail(s), 1, d, 0, out)
            ELSE IF quad = 1 THEN
                B64Scan(Tail(s), 2, d % 16, 0, Append(out, left * 4 + d \div 16))
            ELSE IF quad = 2 THEN
                B64Scan(Tail(s), 3, d % 4, 0, Append(out, left * 16 + d \div 4))
            ELSE B64Scan(Tail(s), 0, 0, 0, Append(out, left * 64 + d))

B64Decode(s) == B64Scan(s, 0, 0, 0, <<>>)

(***************************************************************************)
(* ClipboardItem.                                                           *)
(***************************************************************************)
\* ClipboardItem.__init__(content, content_type).
ClipboardItem(content, content_type) ==
    [id |-> ItemId(content), content |-> content, type |-> content_type,
     timestamp |-> SourceMTime]

\* ClipboardItem.to_dict: the JSON object of an item.  An image's bytes are
\* base64 text; any other content (a str) is stored as it is.
to_dict(item) ==
    IF item.type = "image"
    THEN [id |-> item.id, content |-> B64Encode(item.content.v),
          type |-> item.type, timestamp |-> item.timestamp]
    ELSE [id |-> item.id, content |-> item.content.v,
          type |-> item.type, timestamp |-> item.timestamp]

\* from_dict that leaves an image's content as the stored base64 text.
from_dict_keeps_base64(data) ==
    IF ~({"content", "type", "id"} \subseteq DOMAIN data)
    THEN [raised |-> "KeyError"]
    ELSE
        LET item == ClipboardItem(PyStrVal(data.content), data.type)
            ts == IF "timestamp" \in DOMAIN data THEN data.timestamp
                  ELSE item.timestamp
        IN  [raised |-> "none",
             item |-> [item EXCEPT !.id = data.id, !.timestamp = ts]]

\* ClipboardItem.from_dict: data['content'], data['type'] and data['id'] are
\* indexed (KeyError when absent), the timestamp is read with .get, and an
\* image's content is base64-decoded.  The stored id replaces the computed one.
from_dict(data) ==
    IF ~({"content", "type", "id"} \subseteq DOMAIN data)
    THEN [raised |-> "KeyError"]
    ELSE
        LET item == ClipboardItem(PyStrVal(data.content), data.type)
            ts == IF "timestamp" \in DOMAIN data THEN data.timestamp
                  ELSE item.timestamp
            dec == B64Decode(data.content)
        IN  IF data.type # "image"
            THEN [raised |-> "none",
                  item |-> [item EXCEPT !.id = data.id, !.timestamp = ts]]
            ELSE IF dec.raised # "none" THEN [raised |-> dec.raised]
            ELSE [raised |-> "none",
                  item |-> [id |-> data.id, content |-> PyBytesVal(dec.bytes),
                            type |-> data.type, timestamp |-> ts]]

(***************************************************************************)
(* The store operations of ClipboardManager, as functions of the store.     *)
(***************************************************************************)
\* seq[:n] of Python: the first n elements, or all but the last -n when n < 0.
PySlice(seq, n) ==
    LET stop == IF n >= 0 THEN (IF n < Len(seq) THEN n ELSE Len(seq))
                ELSE (IF Len(seq) + n > 0 THEN Len(seq) + n ELSE 0)
    IN  SubSeq(seq, 1, stop)

\* any(existing.id == id for existing in h)
HasId(h, id) == \E i \in 1..Len(h) : h[i].id = id

\* add_item without the truncation to max_items.
add_item_keeps_all(h, m, content, content_type) ==
    LET item == ClipboardItem(content, content_type)
    IN  IF HasId(h, item.id) THEN [history |-> h, saves |-> FALSE]
        ELSE [history |-> <<item>> \o h, saves |-> TRUE]

\* add_item that moves an entry seen again to the front (MRU order).
add_item_moves_to_front(h, m, content, content_type) ==
    LET item == ClipboardItem(content, content_type)
        others == SelectSeq(h, LAMBDA e : e.id # item.id)
        inserted == <<item>> \o others
    IN  [history |-> IF Len(inserted) > m THEN PySlice(inserted, m) ELSE inserted,
         saves |-> TRUE]

\* add_item that returns without calling save_config.
add_item_never_saves(h, m, content, content_type) ==
    LET item == ClipboardItem(content, content_type)
        inserted == <<item>> \o h
    IN  IF HasId(h, item.id) THEN [history |-> h, saves |-> FALSE]
        ELSE [history |-> IF Len(inserted) > m THEN PySlice(inserted, m)
                          ELSE inserted,
              saves |-> FALSE]

\* add_item up to its save_config call: the new history and whether the
\* method goes on to populate_list and save_config (it returns early on a
\* duplicate id).
add_item(h, m, content, content_type) ==
    LET item == ClipboardItem(content, content_type)
        inserted == <<item>> \o h
    IN  IF HasId(h, item.id) THEN [history |-> h, saves |-> FALSE]
        ELSE [history |-> IF Len(inserted) > m THEN PySlice(inserted, m)
                          ELSE inserted,
              saves |-> TRUE]

\* save_config: the document built from the store.
save_config(h, m) ==
    [kind |-> "object",
     history |-> [i \in 1..Len(h) |-> to_dict(h[i])],
     max_items |-> m]

\* [ClipboardItem.from_dict(item) for item in records]: the items, or the
\* first exception raised.
RECURSIVE FromDicts(_)
FromDicts(records) ==
    IF records = <<>> THEN [raised |-> "none", items |-> <<>>]
    ELSE
        LET first == from_dict(Head(records))
            rest == FromDicts(Tail(records))
        IN  IF first.raised # "none" THEN [raised |-> first.raised]
            ELSE IF rest.raised # "none" THEN [raised |-> rest.raised]
            ELSE [raised |-> "none", items |-> <<first.item>> \o rest.items]

\* load_config on a manager whose __init__ set history = [] and
\* max_items = ctor_max_items.  FileNotFoundError and JSONDecodeError are
\* caught; any other exception leaves the method (and __init__).
load_config(doc, ctor_max_items) ==
    IF doc.kind \in {"missing", "garbage"}
    THEN [raised |-> "none", history |-> <<>>, max_items |-> ctor_max_items]
    ELSE IF doc.kind = "array"
    THEN [raised |-> "AttributeError", history |-> <<>>,
          max_items |-> ctor_max_items]
    ELSE
        LET records == IF "history" \in DOMAIN doc THEN doc.history ELSE <<>>
            loaded == FromDicts(records)
        IN  IF loaded.raised # "none"
            THEN [raised |-> loaded.raised, history |-> <<>>,
                  max_items |-> ctor_max_items]
            ELSE [raised |-> "none", history |-> loaded.items,
                  max_items |-> IF "max_items" \in DOMAIN doc THEN doc.max_items
                                ELSE DefaultMaxItems]

\* open(config_path, 'w') and json.dump in save_config, on a file system that
\* accepts the write, refuses to open the file, or fails after truncating it.
WriteFile(old, doc, fsState) ==
    IF fsState = "ok" THEN [raised |-> "none", disk |-> doc]
    ELSE IF fsState = "denied" THEN [raised |-> "PermissionError", disk |-> old]
    ELSE [raised |-> "OSError", disk |-> [kind |-> "garbage"]]

(***************************************************************************)
(* The inputs explored: clipboard contents and initial documents.           *)
(***************************************************************************)
\* One-pixel RGBA images, as check_clipboard reads them (raw pixel bytes).
PixelXyz == <<120, 121, 122, 255>>
PixelQuote == <<0, 39, 92, 7>>
ImagePayloads == {PixelXyz, PixelQuote}

\* The texts "a", "b" and the ten characters b'xyz\xff'.
TextA == <<97>>
TextB == <<98>>
TextReprXyz == <<98, 39, 120, 121, 122, 92, 120, 102, 102, 39>>
TextPayloads == {TextA, TextB, TextReprXyz}

\* What QClipboard.mimeData() offers: a text, an image, both or neither.
NoClipboard == [hasText |-> FALSE, text |-> <<>>, hasImage |-> FALSE, image |-> <<>>]
Clipboards ==
    {[hasText |-> t # <<>>, text |-> t, hasImage |-> i # <<>>, image |-> i] :
        t \in TextPayloads \cup {<<>>}, i \in ImagePayloads \cup {<<>>}}

\* Records of an initial document: written by to_dict, or edited by hand.
RecText == to_dict([ClipboardItem(PyStrVal(TextA), "text") EXCEPT !.timestamp = 3])
RecImage == to_dict([ClipboardItem(PyBytesVal(PixelXyz), "image") EXCEPT !.timestamp = 3])
RecNoTimestamp == [id |-> ItemId(PyStrVal(TextB)), content |-> TextB, type |-> "text"]
RecStaleId == [RecText EXCEPT !.content = TextB]
RecUnknownType == [id |-> ItemId(PyStrVal(TextB)), content |-> TextB,
                   type |-> "file", timestamp |-> 3]
RecNoContent == [id |-> ItemId(PyStrVal(TextA)), type |-> "text", timestamp |-> 3]
RecNoType == [id |-> ItemId(PyStrVal(TextA)), content |-> TextA, timestamp |-> 3]
RecNoId == [content |-> TextA, type |-> "text", timestamp |-> 3]
RecBadBase64 == [RecImage EXCEPT !.content = <<101>>]

WellFormedRecords == {RecText, RecImage, RecNoTimestamp, RecStaleId, RecUnknownType}
MalformedRecords == {RecNoContent, RecNoType, RecNoId}
DocRecords == WellFormedRecords \cup MalformedRecords \cup {RecBadBase64}

RecordLists == UNION {[1..n -> DocRecords] : n \in 0..MaxDocLen}

\* The capacities an initial document may carry (non-positive ones included).
DocMaxItems == (-1)..MaxCap

\* The file at config_path when the process starts: absent, not JSON, JSON
\* that is not an object, or an object with a history list and, optionally,
\* max_items.
InitDocs ==
    {[kind |-> "missing"], [kind |-> "garbage"], [kind |-> "array"]}
    \cup {[kind |-> "object", history |-> h, max_items |-> m] :
            h \in RecordLists, m \in DocMaxItems}
    \cup {[kind |-> "object", history |-> h] : h \in RecordLists}

\* The max_items argument of ClipboardManager(...): the default, or a small one.
CtorMaxItems == (1..MaxCap) \cup {DefaultMaxItems}

(***************************************************************************)
(* State.                                                                   *)
(*   phase      "stopped" | "running" | "crashed" (an exception left        *)
(*              __init__ or a handler and ended the process)                *)
(*   history    self.history, most recent first                             *)
(*   max_items  self.max_items                                              *)
(*   disk       the file at config_path                                     *)
(*   clipboard  the system clipboard                                        *)
(*   fs         whether config_path can be written                          *)
(*   last       the last event: its operation and the exception it raised   *)
(*              (for a poll also whether it saved and what it followed)     *)
(*   clip_rows  the number of rows of the clip_list widget                  *)
(*   timer      the main thread inside check_clipboard / add_item: its      *)
(*              position and locals (item, the slice taken, the config      *)
(*              built by save_config), each <<>> or a one-element sequence  *)
(*   listener   the hotkey listener thread inside clear_history             *)
(***************************************************************************)
Event(op, raised) == [op |-> op, raised |-> raised]

\* The event of a check_clipboard: whether its add_item went on to
\* populate_list and save_config, and whether the event before it was a
\* check_clipboard too (run 2) or anything else (run 1).
Polled(raised, saved, prev) ==
    [op |-> "check_clipboard", raised |-> raised, saved |-> saved,
     run |-> IF prev.op = "check_clipboard" THEN 2 ELSE 1]

\* A thread that is in none of the store's methods.
IdleTimer == [pc |-> "idle", item |-> <<>>, sliced |-> <<>>, doc |-> <<>>]
IdleListener == [pc |-> "idle", doc |-> <<>>]

\* The thread is inside a method: it has entered it and not yet returned.
InFlight(thread) == thread.pc \notin {"idle", "done"}

Init ==
    /\ phase = "stopped"
    /\ history = <<>>
    /\ max_items = DefaultMaxItems
    /\ disk \in InitDocs
    /\ clipboard = NoClipboard
    /\ fs = "ok"
    /\ last = Event("none", "none")
    /\ clip_rows = 0
    /\ timer = IdleTimer
    /\ listener = IdleListener

\* What check_clipboard passes to add_item: the text when there is one, else
\* the image, else nothing.
Observed(cb) ==
    IF cb.hasText THEN [present |-> TRUE, content |-> PyStrVal(cb.text), type |-> "text"]
    ELSE IF cb.hasImage
    THEN [present |-> TRUE, content |-> PyBytesVal(cb.image), type |-> "image"]
    ELSE [present |-> FALSE]

\* An exception that leaves a handler ends the process (Qt aborts on an
\* unhandled exception in a slot) or is only reported (a listener thread, an
\* installed excepthook).
PhaseAfter(raised) == IF raised = "none" THEN {"running"} ELSE {"running", "crashed"}

\* main(): ClipboardManager(max_items) is constructed; __init__ runs
\* load_config.  An exception leaving it ends the process.
Start ==
    /\ phase \in {"stopped", "crashed"}
    /\ \E m \in CtorMaxItems :
        LET r == load_config(disk, m)
        IN  /\ phase' = IF r.raised = "none" THEN "running" ELSE "crashed"
            /\ history' = r.history
            /\ max_items' = r.max_items
            /\ last' = Event("start", r.raised)
            /\ clip_rows' = Len(r.history)
    /\ UNCHANGED <<disk, clipboard, fs, timer, listener>>

\* The user or another program changes the clipboard.
Copy ==
    /\ phase = "running"
    /\ \E cb \in Clipboards : cb # clipboard /\ clipboard' = cb
    /\ last' = Event("copy", "none")
    /\ UNCHANGED <<phase, history, max_items, disk, fs, clip_rows, timer, listener>>

\* The timer's check_clipboard: add_item on what the clipboard offers, with
\* add_item's save_config when it inserted.
CheckClipboard ==
    /\ phase = "running"
    /\ LET seen == Observed(clipboard)
           r == IF seen.present THEN add_item(history, max_items, seen.content, seen.type)
                ELSE [history |-> history, saves |-> FALSE]
           w == IF r.saves THEN WriteFile(disk, save_config(r.history, max_items), fs)
                ELSE [raised |-> "none", disk |-> disk]
       IN  /\ history' = r.history
           /\ disk' = w.disk
           /\ last' = Polled(w.raised, r.saves, last)
           /\ phase' \in PhaseAfter(w.raised)
           /\ clip_rows' = IF r.saves THEN Len(r.history) ELSE clip_rows
    /\ UNCHANGED <<max_items, clipboard, fs, timer, listener>>

\* clear_history that empties the list and returns without save_config.
ClearHistoryNeverSaves ==
    /\ phase = "running"
    /\ history' = <<>>
    /\ last' = Event("clear_history", "none")
    /\ clip_rows' = 0
    /\ UNCHANGED <<phase, max_items, disk, clipboard, fs, timer, listener>>

\* clear_history (button or hotkey): history.clear(), then save_config.
ClearHistory ==
    /\ phase = "running"
    /\ LET w == WriteFile(disk, save_config(<<>>, max_items), fs)
       IN  /\ history' = <<>>
           /\ disk' = w.disk
           /\ last' = Event("clear_history", w.raised)
           /\ phase' \in PhaseAfter(w.raised)
    /\ clip_rows' = 0
    /\ UNCHANGED <<max_items, clipboard, fs, timer, listener>>

\* What paste_last_item puts on the clipboard for history h: the text of a
\* text item; for an image item whatever QImage.fromData makes of the bytes
\* (any image or none); nothing for an empty history or another type.
PasteResults(h, cb) ==
    IF h = <<>> THEN {cb}
    ELSE IF h[1].type = "text"
    THEN {[hasText |-> TRUE, text |-> h[1].content.v, hasImage |-> FALSE, image |-> <<>>]}
    ELSE IF h[1].type = "image"
    THEN {c \in Clipboards : ~c.hasText}
    ELSE {cb}

\* paste_last_item (hotkey): the listener thread runs one callback at a time.
PasteLastItem ==
    /\ phase = "running"
    /\ ~InFlight(listener)
    /\ clipboard' \in PasteResults(history, clipboard)
    /\ last' = Event("paste_last_item", "none")
    /\ UNCHANGED <<phase, history, max_items, disk, fs, clip_rows, timer, listener>>

\* seq[index] of Python for an integer index: IndexError outside
\* -len..len-1, counted from the end when negative.
PyIndex(seq, index) ==
    IF index >= Len(seq) \/ index < -Len(seq) THEN [raised |-> "IndexError"]
    ELSE [raised |-> "none",
          value |-> IF index >= 0 THEN seq[index + 1] ELSE seq[Len(seq) + index + 1]]

\* restore_item for the row index of the double-clicked item: what it raises
\* and what it leaves on the clipboard.  pyperclip.copy puts the text of a
\* text item; an image item gives whatever QImage.fromData makes of the bytes.
restore_item(h, index, cb) ==
    LET selected == PyIndex(h, index)
    IN  IF selected.raised # "none" THEN {[raised |-> selected.raised, clipboard |-> cb]}
        ELSE IF selected.value.type = "text"
        THEN {[raised |-> "none",
               clipboard |-> [hasText |-> TRUE, text |-> selected.value.content.v,
                              hasImage |-> FALSE, image |-> <<>>]]}
        ELSE IF selected.value.type = "image"
        THEN {[raised |-> "none", clipboard |-> c] : c \in {c \in Clipboards : ~c.hasText}}
        ELSE {[raised |-> "none", clipboard |-> cb]}

\* restore_item that also moves the restored entry to the front and saves.
RestoreItemMovesToFront ==
    /\ phase = "running"
    /\ ~InFlight(timer)
    /\ \E row \in 0..(clip_rows - 1) : \E out \in restore_item(history, row, clipboard) :
        /\ clipboard' = out.clipboard
        /\ last' = Event("restore_item", out.raised)
        /\ phase' \in PhaseAfter(out.raised)
        /\ history' = IF out.raised = "none"
                      THEN <<history[row + 1]>>
                           \o SelectSeq(history, LAMBDA e : e # history[row + 1])
                      ELSE history
        /\ disk' = save_config(history', max_items)
    /\ UNCHANGED <<max_items, fs, clip_rows, timer, listener>>

\* restore_item (double click on a row of clip_list, on the main thread).
RestoreItem ==
    /\ phase = "running"
    /\ ~InFlight(timer)
    /\ \E row \in 0..(clip_rows - 1) : \E out \in restore_item(history, row, clipboard) :
        /\ clipboard' = out.clipboard
        /\ last' = Event("restore_item", out.raised)
        /\ phase' \in PhaseAfter(out.raised)
    /\ UNCHANGED <<history, max_items, disk, fs, clip_rows, timer, listener>>

\* The tray's Quit: the process ends and its memory is gone.
Quit ==
    /\ phase = "running"
    /\ phase' = "stopped"
    /\ history' = <<>>
    /\ max_items' = DefaultMaxItems
    /\ last' = Event("quit", "none")
    /\ clip_rows' = 0
    /\ UNCHANGED <<disk, clipboard, fs, timer, listener>>

\* config_path becomes unwritable, the disk fills up, or either is repaired.
FsChange ==
    /\ phase = "running"
    /\ \E f \in {"ok", "denied", "full"} : f # fs /\ fs' = f
    /\ last' = Event("fs_change", "none")
    /\ UNCHANGED <<phase, history, max_items, disk, clipboard, clip_rows, timer, listener>>

Next ==
    Start \/ Copy \/ CheckClipboard \/ ClearHistory \/ PasteLastItem \/ RestoreItem \/ Quit

\* The program on a file system that always accepts the write.
Spec == Init /\ [][Next]_vars

\* The state after ClipboardManager(m) was constructed with no file at
\* config_path: an empty history of capacity m >= 1.
InitFresh ==
    /\ phase = "running"
    /\ \E m \in 1..MaxCap :
        LET r == load_config([kind |-> "missing"], m)
        IN  history = r.history /\ max_items = r.max_items
    /\ disk = [kind |-> "missing"]
    /\ clipboard = NoClipboard
    /\ fs = "ok"
    /\ last = Event("start", "none")
    /\ clip_rows = 0
    /\ timer = IdleTimer
    /\ listener = IdleListener

NextFresh == Copy \/ CheckClipboard

\* Polls only (sequences of add_item calls), from an empty history.
SpecFresh == InitFresh /\ [][NextFresh]_vars

NextIO == Copy \/ CheckClipboard \/ ClearHistory \/ FsChange

\* Inserts and clears on a file system whose writes may fail.
SpecIO == InitFresh /\ [][NextIO]_vars

(***************************************************************************)
(* The two threads.  The QTimer's check_clipboard runs on the main thread;  *)
(* the pynput GlobalHotKeys listener calls clear_history on its own thread. *)
(* No lock is taken anywhere, so the interpreter may switch threads between *)
(* any two statements: each statement of add_item and of clear_history is   *)
(* one step.  A thread stays "done" after it returned until the other       *)
(* thread, no longer in flight, starts its next call: both "done" means     *)
(* the two calls overlapped.                                                *)
(***************************************************************************)
Retire(thread, idle) == IF thread.pc = "done" THEN idle ELSE thread

\* check_clipboard up to add_item's duplicate test: with nothing on the
\* clipboard or a duplicate it returns at once, else the new item is in hand.
TimerPoll ==
    /\ phase = "running"
    /\ ~InFlight(timer)
    /\ LET seen == Observed(clipboard)
       IN  IF seen.present /\ ~HasId(history, ItemId(seen.content))
           THEN /\ timer' = [IdleTimer EXCEPT !.pc = "insert",
                                 !.item = <<ClipboardItem(seen.content, seen.type)>>]
                /\ last' = last
           ELSE /\ timer' = IdleTimer
                /\ last' = Polled("none", FALSE, last)
    /\ listener' = Retire(listener, IdleListener)
    /\ UNCHANGED <<phase, history, max_items, disk, clipboard, fs, clip_rows>>

\* self.history.insert(0, item)
TimerInsert ==
    /\ phase = "running"
    /\ timer.pc = "insert"
    /\ history' = timer.item \o history
    /\ timer' = [timer EXCEPT !.pc = "slice"]
    /\ UNCHANGED <<phase, max_items, disk, clipboard, fs, last, clip_rows, listener>>

\* if len(self.history) > self.max_items: evaluates self.history[:max_items]
TimerSlice ==
    /\ phase = "running"
    /\ timer.pc = "slice"
    /\ timer' = IF Len(history) > max_items
                THEN [timer EXCEPT !.pc = "assign", !.sliced = <<PySlice(history, max_items)>>]
                ELSE [timer EXCEPT !.pc = "populate"]
    /\ UNCHANGED <<phase, history, max_items, disk, clipboard, fs, last, clip_rows, listener>>

\* self.history = <the slice>
TimerAssign ==
    /\ phase = "running"
    /\ timer.pc = "assign"
    /\ history' = timer.sliced[1]
    /\ timer' = [timer EXCEPT !.pc = "populate"]
    /\ UNCHANGED <<phase, max_items, disk, clipboard, fs, last, clip_rows, listener>>

\* self.populate_list(): one row per entry of self.history
TimerPopulate ==
    /\ phase = "running"
    /\ timer.pc = "populate"
    /\ clip_rows' = Len(history)
    /\ timer' = [timer EXCEPT !.pc = "build"]
    /\ UNCHANGED <<phase, history, max_items, disk, clipboard, fs, last, listener>>

\* save_config: config = {...} built from self.history
TimerBuild ==
    /\ phase = "running"
    /\ timer.pc = "build"
    /\ timer' = [timer EXCEPT !.pc = "write", !.doc = <<save_config(history, max_items)>>]
    /\ UNCHANGED <<phase, history, max_items, disk, clipboard, fs, last, clip_rows, listener>>

\* save_config: json.dump(config, f); add_item and check_clipboard return.
TimerWrite ==
    /\ phase = "running"
    /\ timer.pc = "write"
    /\ LET w == WriteFile(disk, timer.doc[1], fs)
       IN  /\ disk' = w.disk
           /\ last' = Polled(w.raised, TRUE, last)
           /\ phase' \in PhaseAfter(w.raised)
    /\ timer' = [timer EXCEPT !.pc = "done"]
    /\ UNCHANGED <<history, max_items, clipboard, fs, clip_rows, listener>>

\* The hotkey callback clear_history starts: self.history.clear()
ListenerClear ==
    /\ phase = "running"
    /\ ~InFlight(listener)
    /\ history' = <<>>
    /\ listener' = [IdleListener EXCEPT !.pc = "list"]
    /\ timer' = Retire(timer, IdleTimer)
    /\ UNCHANGED <<phase, max_items, disk, clipboard, fs, last, clip_rows>>

\* self.clip_list.clear(), a widget call made off the GUI thread: Qt does not
\* define what that does, so the rows are cleared or the process dies.
ListenerList ==
    /\ phase = "running"
    /\ listener.pc = "list"
    /\ clip_rows' = 0
    /\ phase' \in {"running", "crashed"}
    /\ listener' = [listener EXCEPT !.pc = "build"]
    /\ UNCHANGED <<history, max_items, disk, clipboard, fs, last, timer>>

\* save_config: config = {...} built from self.history
ListenerBuild ==
    /\ phase = "running"
    /\ listener.pc = "build"
    /\ listener' = [listener EXCEPT !.pc = "write",
                        !.doc = <<save_config(history, max_items)>>]
    /\ UNCHANGED <<phase, history, max_items, disk, clipboard, fs, last, clip_rows, timer>>

\* save_config: json.dump(config, f); clear_history returns.
ListenerWrite ==
    /\ phase = "running"
    /\ listener.pc = "write"
    /\ LET w == WriteFile(disk, listener.doc[1], fs)
       IN  /\ disk' = w.disk
           /\ last' = Event("clear_history", w.raised)
           /\ phase' \in PhaseAfter(w.raised)
    /\ listener' = [listener EXCEPT !.pc = "done"]
    /\ UNCHANGED <<history, max_items, clipboard, fs, clip_rows, timer>>

\* The user copies a piece of text.
CopyText == Copy /\ clipboard'.hasText /\ ~clipboard'.hasImage

NextConc ==
    \/ CopyText
    \/ TimerPoll \/ TimerInsert \/ TimerSlice \/ TimerAssign
    \/ TimerPopulate \/ TimerBuild \/ TimerWrite
    \/ ListenerClear \/ ListenerList \/ ListenerBuild \/ ListenerWrite
    \/ RestoreItem \/ PasteLastItem

\* The timer's polls and the listener thread's hotkey callbacks, statement
\* by statement, with keybindings that the listener accepts.
SpecConc == InitFresh /\ [][NextConc]_vars

(***************************************************************************)
(* Properties.                                                              *)
(***************************************************************************)
Seen == Observed(clipboard)

\* Some entry of h holds this payload (same type, same content).
HasPayload(h, seen) ==
    \E i \in 1..Len(h) : h[i].type = seen.type /\ h[i].content = seen.content

\* C1: from an empty history with max_items >= 1, after every add_item call
\* of any sequence of polls (new or already-seen payloads, texts or images)
\* the history holds at most max_items entries.
C1_LenWithinMaxItems == Len(history) <= max_items

\* C1 witness: a poll has filled the largest history, which holds a text and
\* an image, and the payload it observed is the head.
C1_Witness ==
    /\ last.op = "check_clipboard"
    /\ max_items = MaxCap
    /\ Len(history) = max_items
    /\ Seen.present /\ history[1].content = Seen.content
    /\ \E i, j \in 1..Len(history) : history[i].type = "text" /\ history[j].type = "image"

\* C2: in every state of the running manager (after load_config of any
\* document, after any polls and clears) no two entries of history share an id.
C2_NoTwoEntriesShareId ==
    phase = "running" =>
        \A i, j \in 1..Len(history) : i # j => history[i].id # history[j].id

\* C3: a poll whose payload has the id of an entry already in history, at any
\* index, changes nothing: history (entries and order), max_items and the
\* document stay as they were; and a poll that directly follows a poll of the
\* same clipboard changes neither history nor the document.
C3_DuplicateChangesNothing ==
    /\ [][(/\ phase = "running"
           /\ last'.op = "check_clipboard"
           /\ Seen.present
           /\ HasId(history, ItemId(Seen.content)))
          => (history' = history /\ max_items' = max_items /\ disk' = disk)]_vars
    /\ [][(/\ phase = "running"
           /\ last.op = "check_clipboard"
           /\ last'.op = "check_clipboard")
          => (history' = history /\ max_items' = max_items /\ disk' = disk)]_vars

\* C3 witness: a poll has observed a payload whose entry is not the head of
\* the history; the entry is still where it was, behind another one.
C3_Witness ==
    /\ phase = "running"
    /\ last.op = "check_clipboard"
    /\ Seen.present
    /\ Len(history) >= 2
    /\ history[2].id = ItemId(Seen.content)
    /\ history[2].content = Seen.content
    /\ history[1].id # ItemId(Seen.content)

\* C4: a poll of a payload that differs from every payload in the history
\* puts the new entry at index 0 and keeps the newest max_items entries in
\* order, dropping the oldest one at the tail when the bound is exceeded; so
\* n pairwise distinct payloads added to an empty history leave the newest
\* min(n, max_items) of them, most recent first.
C4_DistinctPayloadsNewestFirst ==
    [][(/\ last'.op = "check_clipboard"
        /\ Seen.present
        /\ ~HasPayload(history, Seen))
       => LET all == <<ClipboardItem(Seen.content, Seen.type)>> \o history
              n == IF Len(all) > max_items THEN max_items ELSE Len(all)
          IN  history' = SubSeq(all, 1, n)]_vars

\* C5: for the store of every running state, save_config followed by
\* load_config (in a manager constructed with any max_items) gives the same
\* store: the same entries in the same order, each with the same id, type,
\* content and timestamp, and the same max_items.
C5_SaveLoadRoundTrip ==
    phase = "running" =>
        \A m \in CtorMaxItems :
            LET r == load_config(save_config(history, max_items), m)
            IN  /\ r.raised = "none"
                /\ r.history = history
                /\ r.max_items = max_items

\* C5 witness: polls have built a store that holds a text entry and an image
\* entry, and the document on disk is the one save_config wrote for it.
C5_Witness ==
    /\ phase = "running"
    /\ last.op = "check_clipboard"
    /\ disk = save_config(history, max_items)
    /\ \E i, j \in 1..Len(history) :
        /\ history[i].type = "text" /\ history[i].timestamp = SourceMTime
        /\ history[j].type = "image" /\ history[j].timestamp = SourceMTime
        /\ history[j].content.v \in ImagePayloads

\* The document holds exactly the store (h, m): its max_items is m and its
\* history lists the entries of h in order, record by record.
DocumentHolds(doc, h, m) ==
    /\ doc.kind = "object"
    /\ DOMAIN doc = {"kind", "history", "max_items"}
    /\ doc.max_items = m
    /\ Len(doc.history) = Len(h)
    /\ \A i \in 1..Len(h) :
        /\ doc.history[i].id = h[i].id
        /\ doc.history[i].type = h[i].type
        /\ doc.history[i].timestamp = h[i].timestamp
        /\ from_dict(doc.history[i]).item.content = h[i].content

\* C6: every mutation is followed by a full rewrite of the document before
\* the operation returns: after a poll that inserted an entry and after a
\* clear_history (the write succeeding), the document's history equals the
\* in-memory history in the same order and its max_items the in-memory one.
C6_MutationRewritesDocument ==
    [][(/\ phase = "running"
        /\ last'.raised = "none"
        /\ \/ last'.op = "clear_history"
           \/ /\ last'.op = "check_clipboard"
              /\ Seen.present
              /\ ~HasId(history, ItemId(Seen.content)))
       => DocumentHolds(disk', history', max_items')]_vars

\* C6 witness: a poll has inserted the observed payload in front of an older
\* entry and the document lists both.
C6_Witness ==
    /\ phase = "running"
    /\ last.op = "check_clipboard"
    /\ last.raised = "none"
    /\ Len(history) >= 2
    /\ Seen.present /\ history[1] = ClipboardItem(Seen.content, Seen.type)
    /\ DocumentHolds(disk, history, max_items)

\* C7: clear_history empties history from any state, leaves max_items as it
\* was and writes a document with an empty history; a second clear_history
\* right after it changes neither memory nor the document; a paste_last_item
\* right after it finds no entry and writes nothing to the clipboard.
C7_ClearHistory ==
    /\ [][(phase = "running" /\ last'.op = "clear_history")
          => (/\ history' = <<>>
              /\ max_items' = max_items
              /\ last'.raised = "none"
              /\ DocumentHolds(disk', <<>>, max_items))]_vars
    /\ [][(/\ phase = "running"
           /\ last.op = "clear_history"
           /\ last'.op = "clear_history")
          => (history' = history /\ max_items' = max_items /\ disk' = disk)]_vars
    /\ [][(/\ phase = "running"
           /\ last.op = "clear_history"
           /\ last'.op = "paste_last_item")
          => (clipboard' = clipboard /\ history' = <<>>)]_vars

\* C7 witness: clear_history has run in a manager of the largest small
\* capacity while the clipboard still offers a payload; the history is empty
\* and so is the document's.
C7_Witness ==
    /\ phase = "running"
    /\ last.op = "clear_history"
    /\ max_items = MaxCap
    /\ Seen.present
    /\ history = <<>>
    /\ DocumentHolds(disk, <<>>, max_items)

\* C8: when the write of the document fails during a poll's add_item or
\* during clear_history, the operation still completes normally: no
\* exception leaves it and the process keeps running.
C8_WriteFailureDoesNotEscape ==
    (last.op \in {"check_clipboard", "clear_history"} /\ fs # "ok")
        => (last.raised = "none" /\ phase = "running")

\* C9: startup always produces a store: with the document missing, not
\* parseable, or parseable but not an object, load_config completes without
\* an exception and the manager runs with an empty history.
C9_StartupAlwaysProducesStore ==
    (last.op = "start" /\ disk.kind \in {"missing", "garbage", "array"})
        => (phase = "running" /\ last.raised = "none" /\ history = <<>>)

\* A record lacks a required field.
Malformed(rec) == ~({"content", "type", "id"} \subseteq DOMAIN rec)

\* The items of the well-formed records of a list, in their order.
WellFormedItems(records) ==
    FromDicts(SelectSeq(records, LAMBDA rec : rec \in WellFormedRecords)).items

\* C10: loading a document in which exactly one record lacks a required
\* field, the others being valid, ends in one of the two documented
\* outcomes and not in an unhandled failure: the store holds exactly the
\* valid records in their order (fail open) or it is empty (fail closed).
C10_MalformedRecordHandled ==
    (/\ last.op = "start"
     /\ disk.kind = "object"
     /\ Cardinality({i \in 1..Len(disk.history) : Malformed(disk.history[i])}) = 1
     /\ \A i \in 1..Len(disk.history) :
            Malformed(disk.history[i]) \/ disk.history[i] \in WellFormedRecords)
        => (/\ phase = "running"
            /\ last.raised = "none"
            /\ history \in {WellFormedItems(disk.history), <<>>})

\* C11: in every state of the running manager max_items is a positive
\* integer: a non-positive capacity given to the constructor or read from
\* the document's max_items is rejected.
C11_MaxItemsPositive == phase = "running" => max_items >= 1

\* The document names a capacity of at least 1 that is smaller than the
\* number of records it lists.
DocOverfull(doc) ==
    /\ doc.kind = "object"
    /\ {"history", "max_items"} \subseteq DOMAIN doc
    /\ doc.max_items >= 1
    /\ doc.max_items < Len(doc.history)

\* C12: when load_config reads a document whose max_items is smaller than
\* the length of its history list, the store is truncated from the tail at
\* once: when startup completes history holds the max_items most recent
\* entries in their order, so len(history) <= max_items before any insert.
C12_LoadTruncatesToCapacity ==
    (last.op = "start" /\ phase = "running" /\ DocOverfull(disk))
        => (/\ Len(history) <= max_items
            /\ history = SubSeq(FromDicts(disk.history).items, 1, max_items))

\* An add_item of the timer thread and a clear_history of the listener thread
\* overlapped and both have returned.
Overlapped == phase = "running" /\ timer.pc = "done" /\ listener.pc = "done"

\* The store, the rows and the document as they are after h was saved.
Settled(h) ==
    /\ history = h
    /\ clip_rows = Len(h)
    /\ DocumentHolds(disk, h, max_items)

\* C13: the listener thread's clear_history and the timer thread's add_item
\* are serialized: once an overlapping pair has returned, the state is the
\* one some serial order of the two leaves (add then clear: nothing; clear
\* then add: exactly the entry add observed, and none from before the clear).
C13_OverlapIsSerial ==
    Overlapped =>
        \/ Settled(<<>>)
        \/ Settled(add_item(<<>>, max_items, timer.item[1].content, timer.item[1].type).history)

\* C14: whether a polled payload is a duplicate depends only on what the
\* history holds: while an entry with that payload is in the history the
\* poll changes nothing, and a payload with no entry in the history (never
\* seen, or seen and since evicted) is inserted as a new entry at index 0.
C14_DuplicateIffHeld ==
    [][(last'.op = "check_clipboard" /\ Seen.present)
       => IF HasPayload(history, Seen)
          THEN history' = history
          ELSE /\ history' # <<>>
               /\ history'[1] = ClipboardItem(Seen.content, Seen.type)]_vars

\* C15: every entry of history, whether add_item inserted it or load_config
\* read it from the document, has an id equal to the digest of its content.
C15_IdIsDigestOfContent ==
    phase = "running" => \A i \in 1..Len(history) : history[i].id = ItemId(history[i].content)

\* C16: every entry of history has type 'text' or 'image', also when the
\* document it was loaded from gave another type.
C16_TypeIsTextOrImage ==
    phase = "running" => \A i \in 1..Len(history) : history[i].type \in {"text", "image"}

\* C17: restore_item and paste_last_item are read-only on the store: they
\* leave history, max_items and the document as they were; only the
\* clipboard is written.
C17_RestoreAndPasteReadOnly ==
    [][last'.op \in {"restore_item", "paste_last_item"}
       => UNCHANGED <<history, max_items, disk, clip_rows, fs>>]_vars

\* C17 witness: the second row was restored: its text is on the clipboard,
\* and the history and its document still hold both entries.
C17_Witness ==
    /\ last.op = "restore_item"
    /\ last.raised = "none"
    /\ Len(history) = 2
    /\ history[2].type = "text"
    /\ history[1].content # history[2].content
    /\ clipboard.hasText /\ clipboard.text = history[2].content.v
    /\ disk = save_config(history, max_items)

\* C18: a lookup that finds nothing is a normal outcome: paste_last_item on
\* an empty history and restore_item with an index that is out of range
\* complete without raising, write nothing to the clipboard and change
\* nothing.
C18_MissingLookupIsNormal ==
    [][(last' # last /\ last'.op \in {"restore_item", "paste_last_item"})
       => (/\ last'.raised = "none"
           /\ (history = <<>> => clipboard' = clipboard)
           /\ UNCHANGED <<phase, history, max_items, disk>>)]_vars

\* C19: polling has a fixed point: with the clipboard unchanged, from the
\* second check_clipboard on the history is unchanged and nothing is
\* written, whatever store startup produced; and a poll of an empty
\* clipboard never changes the store or writes.
C19_PollingFixedPoint ==
    [][last'.op = "check_clipboard"
       => (/\ last'.run = 2 => (history' = history /\ ~last'.saved)
           /\ ~Seen.present => (UNCHANGED <<history, max_items, disk>> /\ ~last'.saved))]_vars

\* C20: after a clear_history on the listener thread overlapped an add_item
\* on the timer thread, in any interleaving of their list mutations, the
\* building of their documents and their file writes, once both have
\* returned the document's history equals the history in memory.
C20_DocumentMatchesAfterOverlap ==
    Overlapped => disk = save_config(history, max_items)

====
